---- MODULE Spec2Model ----
(***************************************************************************)
(* The Nextcloud storage driver of reva (package nextcloud): a             *)
(* storage.FS implementation that forwards every operation as one HTTP     *)
(* request to a Nextcloud backend.                                         *)
(*                                                                         *)
(* The repository holds the driver in two files, nextcloud.go and an       *)
(* unnamed file (part_000) with the same methods and other bodies; the     *)
(* variable impl says which of the two a behaviour runs.                   *)
(*                                                                         *)
(* Representation.                                                         *)
(*  - A Go string that the driver builds or escapes (URL, request body,    *)
(*    paths, keys, user names) is a Text: a sequence of tokens.  A token   *)
(*    is a special character ("/", "%", the double quote), a run of        *)
(*    ordinary characters, or a literal fragment of the source.  The       *)
(*    token "%" stands for a percent sign that is not followed by two hex  *)
(*    digits.                                                              *)
(*  - A response body is the JSON value the backend sent (a record with    *)
(*    a tag k: null, num, str, bool, arr, obj) or a text that is no JSON;  *)
(*    the decoding operators say what encoding/json makes of it for the    *)
(*    Go type a method decodes into.                                       *)
(*  - A Go value that may be nil, a result or an error is a record with a  *)
(*    tag k.                                                               *)
(*  - nc.client.Do is one exchange: it ends in an error or in a response.  *)
(*    A method is split at that call: Begin runs up to it, Finish from it. *)
(*    What the client does inside the exchange (redirects, connection      *)
(*    reuse) is outside the driver and not modelled.                       *)
(*  - The provider types are kept to the fields the driver or the          *)
(*    parameters of this model set.                                        *)
(***************************************************************************)
EXTENDS Integers, Sequences, FiniteSets, TLC

\* ------------------------------------------------------------------ bounds

\* The longest JSON array the backend answers with.
MaxItems == 2

\* ------------------------------------------------------------------- values

Nil == [k |-> "nil"]
NoErr == "nil"

Impls == {"nextcloud.go", "part_000"}

\* A percent sign that starts no valid escape.
PCT == "%"
QUOTE == "\""

\* HTTP status codes the code compares against.
StatusOK == 200
StatusNotFound == 404

\* --------------------------------------------------------------------- text

\* url.QueryEscape, byte by byte.
QueryEscapeByte(c) ==
    CASE c = "/" -> "%2F"
      [] c = PCT -> "%25"
      [] c = QUOTE -> "%22"
      [] OTHER -> c

QueryEscape(s) == [i \in 1..Len(s) |-> QueryEscapeByte(s[i])]

\* url.Parse as http.NewRequest calls it: an invalid percent escape is an error.
urlParses(url) == \A i \in 1..Len(url) : url[i] # PCT

\* encoding/json's encoding of a string: quoted, the double quote escaped.
jsonEscapeByte(c) == IF c = QUOTE THEN "\\\"" ELSE c

jsonString(s) == <<QUOTE>> \o [i \in 1..Len(s) |-> jsonEscapeByte(s[i])] \o <<QUOTE>>

\* The members of a JSON object, comma separated (fields is a sequence of Texts;
\* an omitted field is the empty Text).
RECURSIVE jsonMembers(_)
jsonMembers(fields) ==
    IF fields = <<>> THEN <<>>
    ELSE LET rest == jsonMembers(Tail(fields)) IN
         IF Head(fields) = <<>> THEN rest
         ELSE IF rest = <<>> THEN Head(fields)
         ELSE Head(fields) \o <<",">> \o rest

jsonObject(fields) == <<"{">> \o jsonMembers(fields) \o <<"}">>

\* A struct field: "name":value.
jsonField(name, value) == <<QUOTE \o name \o QUOTE \o ":">> \o value

\* A field tagged omitempty.
jsonOmitEmpty(name, s) == IF s = <<>> THEN <<>> ELSE jsonField(name, jsonString(s))

\* A []string: null for the nil slice.
RECURSIVE jsonStrings(_)
jsonStrings(ss) ==
    IF ss = <<>> THEN <<>>
    ELSE jsonString(Head(ss)) \o (IF Tail(ss) = <<>> THEN <<>> ELSE <<",">> \o jsonStrings(Tail(ss)))

jsonStringSlice(ss) == IF ss = <<>> THEN <<"null">> ELSE <<"[">> \o jsonStrings(ss) \o <<"]">>

\* A map[string]string with at most the key "m": null for the nil map.
jsonStringMap(m) ==
    IF m = <<>> THEN <<"null">> ELSE jsonObject(<<jsonField("m", jsonString(m))>>)

\* ------------------------------------------------------- call parameters

P1 == <<"d", "/", "x">>
P2 == <<"y", PCT>>
K1 == <<"k">>
K2 == <<"k", "/", QUOTE>>

\* provider.Reference: a resource id (its opaque id; empty for nil) and a path.
Refs ==
    { [rid |-> <<>>, path |-> P1],
      [rid |-> <<>>, path |-> P2],
      [rid |-> <<"r1">>, path |-> P1] }
\* The references of Upload, Download and DownloadRevision, whose path goes
\* into the URL: one more, with a path that climbs out to another user's.
P3 == <<"..", "/", "..", "/", "~", "bob", "/api/", "Download", "/", "x">>
StreamRefs == Refs \cup { [rid |-> <<>>, path |-> P3] }
NewRefs == { [rid |-> <<>>, path |-> P1], [rid |-> <<"r1">>, path |-> <<>>] }
Keys == {K1, K2}
Paths == {P1, P2}
\* provider.Grant: the grantee's opaque id and whether the permission Stat is set.
Grants == { [grantee |-> <<"u1">>, stat |-> TRUE], [grantee |-> <<"u2">>, stat |-> FALSE] }
Grantees == { <<"u1">>, <<"u2">> }
MdKeysSet == { <<>>, <<K1>> }
\* map[string]string and provider.ArbitraryMetadata: the value under the key "m".
Metadatas == { <<>>, <<"v">> }
UploadLengths == {0, 5}
\* *url.URL, as its String().
TargetURIs == { <<"http", ":", "/", "/", "t1">>, <<"http", ":", "/", "/", "t2">> }
\* []*provider.ListStorageSpacesRequest_Filter: the filters' owner ids.
FilterSets == { <<>>, <<"u1">> }
\* *provider.ResourceId, as its opaque id.
ResourceIds == { <<"r1">>, <<"r2">> }
\* io.ReadCloser of Upload, as its content.
Readers == { <<"data">> }

DoOps ==
    { "GetHome", "CreateHome", "CreateDir", "Delete", "Move", "GetMD", "ListFolder",
      "InitiateUpload", "ListRevisions", "RestoreRevision", "ListRecycle",
      "RestoreRecycleItem", "PurgeRecycleItem", "EmptyRecycle", "GetPathByID",
      "AddGrant", "RemoveGrant", "DenyGrant", "UpdateGrant", "ListGrants", "GetQuota",
      "CreateReference", "Shutdown", "SetArbitraryMetadata", "UnsetArbitraryMetadata",
      "ListStorageSpaces" }
StreamOps == { "Upload", "Download", "DownloadRevision" }
LocalOps == { "CreateStorageSpace" }
Ops == DoOps \cup StreamOps \cup LocalOps

\* The parameters of each method besides the context, from the method signatures.
Params(op) ==
    CASE op \in {"GetHome", "CreateHome", "EmptyRecycle", "GetQuota", "Shutdown"} ->
           { [none |-> Nil] }
      [] op \in {"CreateDir", "Delete", "ListRevisions", "ListGrants"} -> [ref : Refs]
      [] op = "Download" -> [ref : StreamRefs]
      [] op = "Move" -> [oldRef : Refs, newRef : NewRefs]
      [] op \in {"GetMD", "ListFolder"} -> [ref : Refs, mdKeys : MdKeysSet]
      [] op = "InitiateUpload" ->
           [ref : Refs, uploadLength : UploadLengths, metadata : Metadatas]
      [] op = "Upload" -> [ref : StreamRefs, r : Readers]
      [] op = "DownloadRevision" -> [ref : StreamRefs, key : Keys]
      [] op = "RestoreRevision" -> [ref : Refs, key : Keys]
      [] op \in {"ListRecycle", "PurgeRecycleItem"} -> [key : Keys, path : Paths]
      [] op = "RestoreRecycleItem" -> [key : Keys, path : Paths, restoreRef : NewRefs]
      [] op = "GetPathByID" -> [id : ResourceIds]
      [] op \in {"AddGrant", "RemoveGrant", "UpdateGrant"} -> [ref : Refs, g : Grants]
      [] op = "DenyGrant" -> [ref : Refs, g : Grantees]
      [] op = "CreateReference" -> [path : Paths, targetURI : TargetURIs]
      [] op = "SetArbitraryMetadata" -> [ref : Refs, md : Metadatas]
      [] op = "UnsetArbitraryMetadata" -> [ref : Refs, keys : MdKeysSet]
      [] op = "ListStorageSpaces" -> [f : FilterSets]
      [] op = "CreateStorageSpace" -> [req : {<<"space">>}]

\* ------------------------------------------------- json.Marshal of parameters

\* *provider.ResourceId (nil for the empty id).
marshalResourceId(rid) == jsonObject(<<jsonOmitEmpty("opaque_id", rid)>>)

\* provider.Reference: both fields omitempty.
marshalReference(ref) ==
    jsonObject(<<IF ref.rid = <<>> THEN <<>>
                 ELSE jsonField("resource_id", marshalResourceId(ref.rid)),
                 jsonOmitEmpty("path", ref.path)>>)

\* provider.Grantee with a user id.
marshalGrantee(g) ==
    jsonObject(<<jsonField("Id",
        jsonObject(<<jsonField("UserId", jsonObject(<<jsonOmitEmpty("opaque_id", g)>>))>>))>>)

\* provider.Grant.
marshalGrant(g) ==
    jsonObject(<<jsonField("grantee", marshalGrantee(g.grantee)),
                 jsonField("permissions",
                     jsonObject(<<IF g.stat THEN jsonField("stat", <<"true">>) ELSE <<>>>>))>>)

\* provider.ArbitraryMetadata.
marshalArbitraryMetadata(md) ==
    jsonObject(<<IF md = <<>> THEN <<>> ELSE jsonField("metadata", jsonStringMap(md))>>)

\* []*provider.ListStorageSpacesRequest_Filter.
marshalFilters(f) ==
    IF f = <<>> THEN <<"null">>
    ELSE <<"[">> \o jsonObject(<<jsonField("Term",
             jsonObject(<<jsonField("Owner", jsonObject(<<jsonOmitEmpty("opaque_id", f)>>))>>))>>)
         \o <<"]">>

\* ------------------------------------------ the Action each method forwards

\* type Action struct { verb string; argS string }
Action(verb, argS) == [verb |-> verb, argS |-> argS]

\* A paramsObj with a Reference and one more field.
refAnd(refName, ref, name, value) ==
    jsonObject(<<jsonField(refName, marshalReference(ref)), jsonField(name, value)>>)

GetHomeAction == Action("GetHome", <<>>)
CreateHomeAction == Action("CreateHome", <<>>)
CreateDirAction(prm) == Action("CreateDir", marshalReference(prm.ref))
DeleteAction(prm) == Action("Delete", marshalReference(prm.ref))

MoveAction_nextcloud(prm) ==
    Action("Move", jsonObject(<<jsonField("oldRef", marshalReference(prm.oldRef)),
                                jsonField("newRef", marshalReference(prm.newRef))>>))
\* A map[string]provider.Reference is marshalled with its keys sorted.
MoveAction_part000(prm) ==
    Action("Move", jsonObject(<<jsonField("from", marshalReference(prm.oldRef)),
                                jsonField("to", marshalReference(prm.newRef))>>))

GetMDAction(prm) ==
    Action("GetMD", refAnd("ref", prm.ref, "mdKeys", jsonStringSlice(prm.mdKeys)))
ListFolderAction(prm) ==
    Action("ListFolder", refAnd("ref", prm.ref, "mdKeys", jsonStringSlice(prm.mdKeys)))
InitiateUploadAction(prm) ==
    Action("InitiateUpload",
        jsonObject(<<jsonField("ref", marshalReference(prm.ref)),
                     jsonField("uploadLength", <<ToString(prm.uploadLength)>>),
                     jsonField("metadata", jsonStringMap(prm.metadata))>>))
ListRevisionsAction(prm) == Action("ListRevisions", marshalReference(prm.ref))

RestoreRevisionAction_nextcloud(prm) ==
    Action("RestoreRevision", refAnd("ref", prm.ref, "key", jsonString(prm.key)))
RestoreRevisionAction_part000(prm) ==
    Action("RestoreRevision",
        jsonObject(<<jsonField("path", jsonString(prm.ref.path)),
                     jsonField("key", jsonString(prm.key))>>))

ListRecycleAction_nextcloud(prm) ==
    Action("ListRecycle",
        jsonObject(<<jsonField("key", jsonString(prm.key)),
                     jsonField("path", jsonString(prm.path))>>))
ListRecycleAction_part000(prm) ==
    Action("ListRecycle",
        jsonObject(<<jsonField("path", jsonString(prm.path)),
                     jsonField("key", jsonString(prm.key))>>))

RestoreRecycleItemAction(prm) ==
    Action("RestoreRecycleItem",
        jsonObject(<<jsonField("key", jsonString(prm.key)),
                     jsonField("path", jsonString(prm.path)),
                     jsonField("restoreRef", marshalReference(prm.restoreRef))>>))
PurgeRecycleItemAction(prm) ==
    Action("PurgeRecycleItem",
        jsonObject(<<jsonField("key", jsonString(prm.key)),
                     jsonField("path", jsonString(prm.path))>>))
EmptyRecycleAction == Action("EmptyRecycle", <<>>)
GetPathByIDAction(prm) == Action("GetPathByID", marshalResourceId(prm.id))

AddGrantAction_nextcloud(prm) ==
    Action("AddGrant", refAnd("ref", prm.ref, "g", marshalGrant(prm.g)))
AddGrantAction_part000(prm) ==
    Action("AddGrant", refAnd("reference", prm.ref, "grant", marshalGrant(prm.g)))
\* RemoveGrant forwarded under AddGrant's verb.
RemoveGrantAsAddGrant(prm) ==
    Action("AddGrant", refAnd("ref", prm.ref, "g", marshalGrant(prm.g)))
RemoveGrantAction_nextcloud(prm) ==
    Action("RemoveGrant", refAnd("ref", prm.ref, "g", marshalGrant(prm.g)))
RemoveGrantAction_part000(prm) ==
    Action("RemoveGrant", refAnd("reference", prm.ref, "grant", marshalGrant(prm.g)))
DenyGrantAction_nextcloud(prm) ==
    Action("DenyGrant", refAnd("ref", prm.ref, "g", marshalGrantee(prm.g)))
DenyGrantAction_part000(prm) ==
    Action("DenyGrant", refAnd("reference", prm.ref, "grantee", marshalGrantee(prm.g)))
UpdateGrantAction_nextcloud(prm) ==
    Action("UpdateGrant", refAnd("ref", prm.ref, "g", marshalGrant(prm.g)))
UpdateGrantAction_part000(prm) ==
    Action("UpdateGrant", refAnd("reference", prm.ref, "grant", marshalGrant(prm.g)))

\* The body is the marshalled literal provider.Grant of the source, not ref.
ListGrantsAction_nextcloud(prm) ==
    Action("ListGrants",
        <<"{\"grantee\":{\"Id\":{\"UserId\":{\"idp\":\"some-idp\",\"opaque_id\":\"some-opaque-id\",\"type\":1}}},\"permissions\":{\"add_grant\":true,\"create_container\":true,\"delete\":true,\"get_path\":true,\"get_quota\":true,\"initiate_file_download\":true,\"initiate_file_upload\":true,\"list_grants\":true}}">>)
ListGrantsAction_part000(prm) == Action("ListGrants", marshalReference(prm.ref))

GetQuotaAction == Action("GetQuota", <<>>)

CreateReferenceAction_nextcloud(prm) ==
    Action("CreateReference",
        jsonObject(<<jsonField("path", jsonString(prm.path)),
                     jsonField("url", jsonString(prm.targetURI))>>))
\* fmt.Sprintf(`{"path":"%s"}`, path): the path is not escaped.
CreateReferenceAction_part000(prm) ==
    Action("CreateReference", <<"{\"path\":\"">> \o prm.path \o <<"\"}">>)

ShutdownAction == Action("Shutdown", <<>>)

SetArbitraryMetadataAction_nextcloud(prm) ==
    Action("SetArbitraryMetadata",
        refAnd("reference", prm.ref, "metadata", marshalArbitraryMetadata(prm.md)))
SetArbitraryMetadataAction_part000(prm) ==
    Action("SetArbitraryMetadata", marshalArbitraryMetadata(prm.md))
UnsetArbitraryMetadataAction_nextcloud(prm) ==
    Action("UnsetArbitraryMetadata",
        refAnd("reference", prm.ref, "keys", jsonStringSlice(prm.keys)))
UnsetArbitraryMetadataAction_part000(prm) ==
    Action("UnsetArbitraryMetadata", marshalReference(prm.ref))

ListStorageSpacesAction_nextcloud(prm) ==
    Action("ListStorageSpaces", jsonObject(<<jsonField("filters", marshalFilters(prm.f))>>))
ListStorageSpacesAction_part000(prm) == Action("ListStorageSpaces", <<>>)

\* The Action a method routed through do hands to it.
ActionOf(impl, op, prm) ==
    LET nc == impl = "nextcloud.go" IN
    CASE op = "GetHome" -> GetHomeAction
      [] op = "CreateHome" -> CreateHomeAction
      [] op = "CreateDir" -> CreateDirAction(prm)
      [] op = "Delete" -> DeleteAction(prm)
      [] op = "Move" -> IF nc THEN MoveAction_nextcloud(prm) ELSE MoveAction_part000(prm)
      [] op = "GetMD" -> GetMDAction(prm)
      [] op = "ListFolder" -> ListFolderAction(prm)
      [] op = "InitiateUpload" -> InitiateUploadAction(prm)
      [] op = "ListRevisions" -> ListRevisionsAction(prm)
      [] op = "RestoreRevision" ->
           IF nc THEN RestoreRevisionAction_nextcloud(prm) ELSE RestoreRevisionAction_part000(prm)
      [] op = "ListRecycle" ->
           IF nc THEN ListRecycleAction_nextcloud(prm) ELSE ListRecycleAction_part000(prm)
      [] op = "RestoreRecycleItem" -> RestoreRecycleItemAction(prm)
      [] op = "PurgeRecycleItem" -> PurgeRecycleItemAction(prm)
      [] op = "EmptyRecycle" -> EmptyRecycleAction
      [] op = "GetPathByID" -> GetPathByIDAction(prm)
      [] op = "AddGrant" -> IF nc THEN AddGrantAction_nextcloud(prm) ELSE AddGrantAction_part000(prm)
      [] op = "RemoveGrant" ->
           IF nc THEN RemoveGrantAction_nextcloud(prm) ELSE RemoveGrantAction_part000(prm)
      [] op = "DenyGrant" ->
           IF nc THEN DenyGrantAction_nextcloud(prm) ELSE DenyGrantAction_part000(prm)
      [] op = "UpdateGrant" ->
           IF nc THEN UpdateGrantAction_nextcloud(prm) ELSE UpdateGrantAction_part000(prm)
      [] op = "ListGrants" ->
           IF nc THEN ListGrantsAction_nextcloud(prm) ELSE ListGrantsAction_part000(prm)
      [] op = "GetQuota" -> GetQuotaAction
      [] op = "CreateReference" ->
           IF nc THEN CreateReferenceAction_nextcloud(prm) ELSE CreateReferenceAction_part000(prm)
      [] op = "Shutdown" -> ShutdownAction
      [] op = "SetArbitraryMetadata" ->
           IF nc THEN SetArbitraryMetadataAction_nextcloud(prm)
           ELSE SetArbitraryMetadataAction_part000(prm)
      [] op = "UnsetArbitraryMetadata" ->
           IF nc THEN UnsetArbitraryMetadataAction_nextcloud(prm)
           ELSE UnsetArbitraryMetadataAction_part000(prm)
      [] op = "ListStorageSpaces" ->
           IF nc THEN ListStorageSpacesAction_nextcloud(prm)
           ELSE ListStorageSpacesAction_part000(prm)

\* ------------------------------------------------------------ JSON values

JNull == [k |-> "null"]
JNum(n) == [k |-> "num", num |-> n]
JStr(s) == [k |-> "str", str |-> s]
JBool(b) == [k |-> "bool", bool |-> b]
JArr(a) == [k |-> "arr", arr |-> a]
JObj(o) == [k |-> "obj", obj |-> o]
\* A body that is no JSON text.
RawText(t) == [k |-> "text", text |-> t]
EmptyBody == RawText("")

\* The permissions the unnamed file's ListGrants reads from a grant.
PermissionFields ==
    { "add_grant", "create_container", "delete", "get_path", "get_quota",
      "initiate_file_download", "initiate_file_upload", "list_grants", "list_container",
      "list_file_versions", "list_recycle", "move", "remove_grant", "purge_recycle",
      "restore_file_version", "restore_recycle_item", "stat", "update_grant" }

\* ---------------------------------------------- the bodies the backend sends

\* An array item with the fields every list method reads, except that it has no
\* "mtime" and no "grantee" (a ResourceInfo's mtime is an object, a FileVersion's
\* a number; a Grant's grantee.Id decodes into no Go struct).
TypedItem(tag) ==
    [ etag |-> JStr(<<"e", tag>>), key |-> JStr(<<"k", tag>>), path |-> JStr(<<"/", tag>>),
      mimetype |-> JStr(<<"t">>), mime_type |-> JStr(<<"t">>), size |-> JNum(3),
      deletionTime |-> JNum(4),
      permissions |->
          JObj([f \in PermissionFields |-> JBool(f = "stat" \/ (f = "move" /\ tag = "2"))]),
      opaque |-> JObj([o |-> JStr(<<"v", tag>>)]), opaqueId |-> JStr(<<"s", tag>>),
      ownerIdp |-> JStr(<<"idp">>), ownerOpaqueId |-> JStr(<<"own">>),
      rootStorageId |-> JStr(<<"rs">>), rootOpaqueId |-> JStr(<<"ro">>),
      name |-> JStr(<<"n", tag>>), quotaMaxBytes |-> JNum(5), quotaMaxFiles |-> JNum(7),
      spaceType |-> JStr(<<"home">>), mTimeSeconds |-> JNum(6) ]

\* The same item with a numeric "mtime" and a "grantee", as the unnamed file's
\* ListRevisions and ListGrants read them.
MapItem(tag) ==
    [f \in DOMAIN TypedItem(tag) \cup {"mtime", "grantee"} |->
        CASE f = "mtime" -> JNum(8)
          [] f = "grantee" ->
               JObj([Id |-> JObj([UserId |->
                   JObj([idp |-> JStr(<<"idp">>), opaque_id |-> JStr(<<"g", tag>>)])])])
          [] OTHER -> TypedItem(tag)[f]]

ItemFamilies ==
    { {JObj(TypedItem("1")), JObj(TypedItem("2"))}, {JObj(MapItem("1")), JObj(MapItem("2"))} }

RECURSIVE SeqsUpTo(_, _)
SeqsUpTo(S, n) ==
    IF n = 0 THEN {<<>>}
    ELSE LET shorter == SeqsUpTo(S, n - 1) IN
         shorter \cup {Append(s, x) : s \in shorter, x \in S}

ArrayDocs ==
    {JArr(a) : a \in UNION {SeqsUpTo(fam, MaxItems) : fam \in ItemFamilies}}
      \cup {JArr(<<JNum(7)>>)}

\* An object well formed for GetMD and GetQuota of both files.
GoodObject(tag) ==
    JObj([ etag |-> JStr(<<"e", tag>>), mimetype |-> JStr(<<"t">>), mime_type |-> JStr(<<"t">>),
           path |-> JStr(<<"/", tag>>), size |-> JNum(3),
           metadata |-> JObj([m |-> JStr(<<"v">>)]),
           maxBytes |-> JNum(IF tag = "1" THEN 5 ELSE 6), maxFiles |-> JNum(7),
           total |-> JNum(IF tag = "1" THEN 9 ELSE 10), used |-> JNum(2) ])
\* The same fields, wrongly typed.
BadObject ==
    JObj([ etag |-> JNum(1), mimetype |-> JNum(1), mime_type |-> JNum(1), path |-> JNum(1),
           size |-> JStr(<<"3">>), metadata |-> JObj([m |-> JNum(1)]),
           maxBytes |-> JStr(<<"5">>), maxFiles |-> JNum(7),
           total |-> JStr(<<"9">>), used |-> JNum(2) ])
EmptyObject == JObj(<<>>)
\* A map[string]string, as InitiateUpload expects.
UploadObject == JObj([simple |-> JStr(<<"yes">>), tus |-> JStr(<<"yes">>)])

ObjectDocs == { EmptyObject, GoodObject("1"), GoodObject("2"), BadObject, UploadObject }
TextDocs == { EmptyBody, RawText("/home/x") }
Docs == ObjectDocs \cup TextDocs \cup ArrayDocs \cup {JNull}

\* What an HTTP exchange ends in: client.Do's error, or a response whose body may
\* fail to be read.
TransportError == [k |-> "error"]
Response(status, body, readErr) ==
    [k |-> "response", status |-> status, body |-> body, readErr |-> readErr]
Outcomes ==
    {TransportError}
      \cup {Response(StatusOK, d, FALSE) : d \in Docs}
      \cup {Response(StatusOK, EmptyBody, TRUE)}
      \cup {Response(StatusNotFound, d, FALSE) :
                d \in {EmptyBody, RawText("/home/x"), GoodObject("1"), JArr(<<>>)}}
      \cup {Response(500, d, FALSE) : d \in {EmptyBody, GoodObject("1")}}
      \cup {Response(201, GoodObject("1"), FALSE)}

\* ------------------------------------------------------ contexts and users

User(name) == [k |-> "user", Username |-> name]
Users == { User(<<"alice">>), User(<<"bob">>), User(<<"eve", PCT>>) }
\* A context carries a user or none.
Contexts == {[user |-> u] : u \in Users \cup {Nil}}

\* What a method returns, or that it panicked.
Ret(val, err) == [k |-> "return", val |-> val, err |-> err]
Panic(msg) == [k |-> "panic", msg |-> msg]

\* A getUser that answered with one user for every context that has one.
getUserOfAnother(ctx) ==
    IF ctx.user = Nil THEN [user |-> Nil, err |-> "UserRequired"]
    ELSE [user |-> User(<<"alice">>), err |-> NoErr]

\* getUser: the context's user, or a UserRequired error.
getUser(ctx) ==
    IF ctx.user = Nil THEN [user |-> Nil, err |-> "UserRequired"]
    ELSE [user |-> ctx.user, err |-> NoErr]

\* http.NewRequest: the request, or url.Parse's error.
NewRequest(method, url, body) ==
    IF urlParses(url)
    THEN [req |-> [method |-> method, url |-> url, body |-> body, contentType |-> ""],
          err |-> NoErr]
    ELSE [req |-> Nil, err |-> "http.NewRequest"]

\* req.Header.Set("Content-Type", ...)
SetContentType(req, t) == [req EXCEPT !.contentType = t]

\* What a method has done when it reaches nc.client.Do(req) or ends before it:
\* the requests handed to the client, each with the client, and the early result.
\* A driver that made the exchange a second time would hand the request over twice.
SendingTwice(nc, req) ==
    [sent |-> <<[client |-> nc.client, req |-> req], [client |-> nc.client, req |-> req]>>,
     early |-> Nil]
Sending(nc, req) == [sent |-> <<[client |-> nc.client, req |-> req]>>, early |-> Nil]
Ending(result) == [sent |-> <<>>, early |-> result]

\* do up to nc.client.Do(req).
doRequest(nc, ctx, a) ==
    LET u == getUser(ctx) IN
    IF u.err # NoErr THEN Ending([status |-> 0, body |-> Nil, err |-> u.err])
    ELSE LET url == nc.endPoint \o <<"~">> \o u.user.Username \o <<"/api/">> \o <<a.verb>>
             r == NewRequest("POST", url, a.argS) IN
         IF r.err # NoErr THEN Ending([status |-> 0, body |-> Nil, err |-> r.err])
         ELSE Sending(nc, SetContentType(r.req, "application/json"))

\* A do that made an error of a status of 400 and above.
doResponseChecked(o) ==
    IF o.k = "error" THEN [status |-> 0, body |-> Nil, err |-> "client.Do"]
    ELSE IF o.readErr THEN [status |-> 0, body |-> Nil, err |-> "io.ReadAll"]
    ELSE IF o.status >= 400 THEN [status |-> o.status, body |-> Nil, err |-> "status"]
    ELSE [status |-> o.status, body |-> o.body, err |-> NoErr]

\* do from nc.client.Do(req) on: the status, the body read, the error.
doResponse(o) ==
    IF o.k = "error" THEN [status |-> 0, body |-> Nil, err |-> "client.Do"]
    ELSE IF o.readErr THEN [status |-> 0, body |-> Nil, err |-> "io.ReadAll"]
    ELSE [status |-> o.status, body |-> o.body, err |-> NoErr]

\* doUpload up to nc.client.Do(req).
doUploadRequest(nc, ctx, filePath, r) ==
    LET u == getUser(ctx) IN
    IF u.err # NoErr THEN Ending(Ret(Nil, u.err))
    ELSE LET url == nc.endPoint \o <<"~">> \o u.user.Username \o <<"/api/Upload/">> \o filePath
             q == NewRequest("PUT", url, r) IN
         IF q.err # NoErr THEN Ending(Panic(q.err))
         ELSE Sending(nc, SetContentType(q.req, "text/plain"))

\* doUpload from nc.client.Do(req) on.
doUploadResponse(o) ==
    IF o.k = "error" THEN Panic("client.Do")
    ELSE IF o.readErr THEN Ret(Nil, "io.ReadAll")
    ELSE Ret(Nil, NoErr)

\* doDownload up to nc.client.Do(req).
doDownloadRequest(nc, ctx, filePath) ==
    LET u == getUser(ctx) IN
    IF u.err # NoErr THEN Ending(Ret(Nil, u.err))
    ELSE LET url == nc.endPoint \o <<"~">> \o u.user.Username \o <<"/api/Download/">> \o filePath
             q == NewRequest("GET", url, <<>>) IN
         IF q.err # NoErr THEN Ending(Panic(q.err))
         ELSE Sending(nc, q.req)

\* A doDownload that took every 2xx status for a success.
doDownloadResponseAny2xx(o) ==
    IF o.k = "error" THEN Panic("client.Do")
    ELSE IF o.status < 200 \/ o.status >= 300
         THEN Panic("No 200 response code in download request")
    ELSE Ret([k |-> "reader", body |-> o.body, readErr |-> o.readErr], NoErr)

\* doDownload and doDownloadRevision from nc.client.Do(req) on: the body is
\* handed to the caller unread.
doDownloadResponse(o) ==
    IF o.k = "error" THEN Panic("client.Do")
    ELSE IF o.status # StatusOK THEN Panic("No 200 response code in download request")
    ELSE Ret([k |-> "reader", body |-> o.body, readErr |-> o.readErr], NoErr)

\* doDownloadRevision up to nc.client.Do(req).
doDownloadRevisionRequest(nc, ctx, filePath, key) ==
    LET u == getUser(ctx) IN
    IF u.err # NoErr THEN Ending(Ret(Nil, u.err))
    ELSE LET url == nc.endPoint \o <<"~">> \o u.user.Username \o <<"/api/DownloadRevision/">>
                      \o QueryEscape(key) \o <<"/">> \o filePath
             q == NewRequest("GET", url, <<>>) IN
         IF q.err # NoErr THEN Ending(Panic(q.err))
         ELSE Sending(nc, q.req)

\* ------------------------------------------------- json.Unmarshal, decoding

\* The parse of a body: a syntax error for a nil body or one that is no JSON.
validJSON(body) == body # Nil /\ body.k # "text"

\* m[name] of a decoded map[string]interface{}: nil for a nil map or no such key.
field(m, name) == IF m.k = "obj" /\ name \in DOMAIN m.obj THEN m.obj[name] ELSE JNull

isNum(v) == v.k = "num"
isStr(v) == v.k = "str"
isBool(v) == v.k = "bool"
isMap(v) == v.k = "obj"

\* json.Unmarshal(body, &map[string]interface{}) and (body, &[]interface{}):
\* null is accepted and leaves the nil map or slice.
unmarshalsIntoMap(body) == validJSON(body) /\ body.k \in {"obj", "null"}
unmarshalsIntoSlice(body) == validJSON(body) /\ body.k \in {"arr", "null"}
elements(body) == IF body.k = "arr" THEN body.arr ELSE <<>>

\* json.Unmarshal(body, &map[string]string).
unmarshalsIntoStringMap(body) ==
    /\ unmarshalsIntoMap(body)
    /\ body.k = "obj" => \A f \in DOMAIN body.obj : body.obj[f].k \in {"str", "null"}

\* The JSON kind of the fields of the provider types the typed decoding fills
\* (their json tags); "iface" is a field of interface type, which no JSON value
\* but null decodes into.
ResourceInfoFields ==
    [ opaque |-> "obj", type |-> "num", id |-> "obj", checksum |-> "obj", etag |-> "str",
      mime_type |-> "str", mtime |-> "obj", path |-> "str", permission_set |-> "obj",
      size |-> "num", owner |-> "obj", target |-> "str", canonical_metadata |-> "obj",
      arbitrary_metadata |-> "obj" ]
FileVersionFields ==
    [ opaque |-> "obj", key |-> "str", size |-> "num", mtime |-> "num", etag |-> "str" ]
RecycleItemFields ==
    [ opaque |-> "obj", type |-> "num", key |-> "str", ref |-> "obj", size |-> "num",
      deletion_time |-> "obj" ]
GranteeFields == [ type |-> "num", Id |-> "iface" ]
PermissionsFields == [f \in PermissionFields |-> "bool"]
GrantFields == [ grantee |-> "obj", permissions |-> "obj" ]

\* json.Unmarshal of the value v into a struct with these fields: an object or
\* null, every known field of its kind or null; unknown fields are ignored.
decodesInto(fields, v) ==
    /\ v.k \in {"obj", "null"}
    /\ v.k = "obj" =>
         \A f \in DOMAIN fields \cap DOMAIN v.obj : v.obj[f].k \in {fields[f], "null"}

decodesIntoGrant(v) ==
    /\ decodesInto(GrantFields, v)
    /\ decodesInto(GranteeFields, field(v, "grantee"))
    /\ decodesInto(PermissionsFields, field(v, "permissions"))

\* The zero value for a field the JSON does not set.
strOf(v) == IF v.k = "str" THEN v.str ELSE <<>>
numOf(v) == IF v.k = "num" THEN v.num ELSE 0
boolOf(v) == IF v.k = "bool" THEN v.bool ELSE FALSE

\* The structs the typed decoding yields, by the fields the response fills.
ResourceInfoOf(v) ==
    [ k |-> "ResourceInfo", etag |-> strOf(field(v, "etag")),
      mime_type |-> strOf(field(v, "mime_type")), path |-> strOf(field(v, "path")),
      size |-> numOf(field(v, "size")), id |-> <<>> ]
FileVersionOf(v) ==
    [ k |-> "FileVersion", key |-> strOf(field(v, "key")), size |-> numOf(field(v, "size")),
      mtime |-> numOf(field(v, "mtime")), etag |-> strOf(field(v, "etag")) ]
RecycleItemOf(v, refPath) ==
    [ k |-> "RecycleItem", key |-> strOf(field(v, "key")), size |-> numOf(field(v, "size")),
      deletionTime |-> numOf(field(v, "deletionTime")), refPath |-> refPath ]
GrantOf(granteeId, perms) ==
    [ k |-> "Grant", grantee |-> granteeId,
      permissions |-> [f \in PermissionFields |-> boolOf(field(perms, f))] ]

\* A slice of pointers, one per element, in the elements' order.
Slice(items) == [k |-> "slice", items |-> items]
\* string(respBody): the body as it came; the empty string for a nil body.
string(body) == IF body = Nil THEN EmptyBody ELSE body

\* ------------------------- what each method makes of do's (status, body, err)

\* _, _, err := nc.do(...); return err
errOnly(d) == Ret(Nil, d.err)

\* _, respBody, err := nc.do(...); return string(respBody), err
GetHome(d) == Ret(string(d.body), d.err)
GetPathByID(d) == Ret(string(d.body), d.err)

\* A GetMD that decoded the body before it looked at the status.
GetMDDecodesFirst(prm, d) ==
    IF d.err # NoErr THEN Ret(Nil, d.err)
    ELSE IF ~(validJSON(d.body) /\ decodesInto(ResourceInfoFields, d.body))
         THEN Ret(Nil, "json.Unmarshal")
    ELSE IF d.status = StatusNotFound THEN Ret(Nil, "NotFound")
    ELSE Ret(ResourceInfoOf(d.body), NoErr)

GetMD_nextcloud(prm, d) ==
    IF d.err # NoErr THEN Ret(Nil, d.err)
    ELSE IF d.status = StatusNotFound THEN Ret(Nil, "NotFound")
    ELSE IF ~(validJSON(d.body) /\ decodesInto(ResourceInfoFields, d.body))
         THEN Ret(Nil, "json.Unmarshal")
    ELSE Ret(ResourceInfoOf(d.body), NoErr)

\* The fields the unnamed file's GetMD and ListFolder assert to be strings.
infoStrings(m) == \A f \in {"path", "etag", "mimetype"} : isStr(field(m, f))

GetMD_part000(prm, d) ==
    IF d.err # NoErr THEN Ret(Nil, d.err)
    ELSE IF d.status = StatusNotFound THEN Ret(Nil, "NotFound")
    ELSE IF ~unmarshalsIntoMap(d.body) THEN Ret(Nil, "json.Unmarshal")
    ELSE LET m == d.body
             md == field(m, "metadata") IN
         IF ~isNum(field(m, "size")) THEN Panic("interface conversion")
         ELSE IF isMap(md) /\ \E f \in DOMAIN md.obj : ~isStr(md.obj[f])
              THEN Panic("interface conversion")
         ELSE IF ~infoStrings(m) THEN Panic("interface conversion")
         ELSE Ret([ k |-> "ResourceInfo", etag |-> field(m, "etag").str,
                    mime_type |-> field(m, "mimetype").str, path |-> prm.ref.path,
                    size |-> field(m, "size").num,
                    id |-> <<"fileid-">> \o QueryEscape(field(m, "path").str) ], NoErr)

ListFolder_nextcloud(d) ==
    IF d.err # NoErr THEN Ret(Nil, d.err)
    ELSE IF d.status = StatusNotFound THEN Ret(Nil, "NotFound")
    ELSE IF ~(unmarshalsIntoSlice(d.body)
              /\ \A i \in DOMAIN elements(d.body) :
                    decodesInto(ResourceInfoFields, elements(d.body)[i]))
         THEN Ret(Nil, "json.Unmarshal")
    ELSE Ret(Slice([i \in DOMAIN elements(d.body) |-> ResourceInfoOf(elements(d.body)[i])]),
             NoErr)

ListFolder_part000(d) ==
    IF d.err # NoErr THEN Ret(Nil, d.err)
    ELSE IF d.status = StatusNotFound THEN Ret(Nil, "NotFound")
    ELSE IF ~unmarshalsIntoSlice(d.body) THEN Ret(Nil, "json.Unmarshal")
    ELSE LET es == elements(d.body) IN
         IF \E i \in DOMAIN es : ~(isMap(es[i]) /\ infoStrings(es[i]))
         THEN Panic("interface conversion")
         ELSE Ret(Slice([i \in DOMAIN es |->
                     [ k |-> "ResourceInfo", etag |-> field(es[i], "etag").str,
                       mime_type |-> field(es[i], "mimetype").str, path |-> <<"/subdir">>,
                       size |-> 0,
                       id |-> <<"fileid-">> \o QueryEscape(field(es[i], "path").str) ]]),
                  NoErr)

InitiateUpload(d) ==
    IF d.err # NoErr THEN Ret(Nil, d.err)
    ELSE IF ~unmarshalsIntoStringMap(d.body) THEN Ret(Nil, "json.Unmarshal")
    ELSE Ret([k |-> "map",
              map |-> IF d.body.k = "obj"
                      THEN [f \in DOMAIN d.body.obj |-> strOf(d.body.obj[f])]
                      ELSE <<>>], NoErr)

ListRevisions_nextcloud(d) ==
    IF d.err # NoErr THEN Ret(Nil, d.err)
    ELSE IF ~(unmarshalsIntoSlice(d.body)
              /\ \A i \in DOMAIN elements(d.body) :
                    decodesInto(FileVersionFields, elements(d.body)[i]))
         THEN Ret(Nil, "json.Unmarshal")
    ELSE Ret(Slice([i \in DOMAIN elements(d.body) |-> FileVersionOf(elements(d.body)[i])]),
             NoErr)

ListRevisions_part000(d) ==
    IF d.err # NoErr THEN Ret(Nil, d.err)
    ELSE IF ~unmarshalsIntoSlice(d.body) THEN Ret(Nil, "json.Unmarshal")
    ELSE LET es == elements(d.body) IN
         IF \E i \in DOMAIN es :
              ~(/\ isMap(es[i])
                /\ isStr(field(es[i], "key")) /\ isNum(field(es[i], "size"))
                /\ isNum(field(es[i], "mtime")) /\ isStr(field(es[i], "etag")))
         THEN Panic("interface conversion")
         ELSE Ret(Slice([i \in DOMAIN es |-> FileVersionOf(es[i])]), NoErr)

ListRecycle_nextcloud(d) ==
    IF d.err # NoErr THEN Ret(Nil, d.err)
    ELSE IF ~(unmarshalsIntoSlice(d.body)
              /\ \A i \in DOMAIN elements(d.body) :
                    decodesInto(RecycleItemFields, elements(d.body)[i]))
         THEN Ret(Nil, "json.Unmarshal")
    ELSE Ret(Slice([i \in DOMAIN elements(d.body) |->
                [RecycleItemOf(elements(d.body)[i], <<>>) EXCEPT !.deletionTime = 0]]), NoErr)

ListRecycle_part000(prm, d) ==
    IF d.err # NoErr THEN Ret(Nil, d.err)
    ELSE IF ~unmarshalsIntoSlice(d.body) THEN Ret(Nil, "json.Unmarshal")
    ELSE LET es == elements(d.body) IN
         IF \E i \in DOMAIN es :
              ~(/\ isMap(es[i])
                /\ isStr(field(es[i], "key")) /\ isNum(field(es[i], "size"))
                /\ isNum(field(es[i], "deletionTime")))
         THEN Panic("interface conversion")
         ELSE Ret(Slice([i \in DOMAIN es |-> RecycleItemOf(es[i], prm.path)]), NoErr)

ListGrants_nextcloud(d) ==
    IF d.err # NoErr THEN Ret(Nil, d.err)
    ELSE IF ~(unmarshalsIntoSlice(d.body)
              /\ \A i \in DOMAIN elements(d.body) : decodesIntoGrant(elements(d.body)[i]))
         THEN Ret(Nil, "json.Unmarshal")
    ELSE Ret(Slice([i \in DOMAIN elements(d.body) |->
                GrantOf(<<>>, field(elements(d.body)[i], "permissions"))]), NoErr)

\* The grantee's user id map of a grant, or JNull where an assertion would panic.
granteeUserId(e) ==
    LET id == field(field(e, "grantee"), "Id") IN
    IF isMap(field(e, "grantee")) /\ isMap(id) /\ isMap(field(id, "UserId"))
    THEN field(id, "UserId") ELSE JNull

ListGrants_part000(d) ==
    IF d.err # NoErr THEN Ret(Nil, d.err)
    ELSE IF ~unmarshalsIntoSlice(d.body) THEN Ret(Nil, "json.Unmarshal")
    ELSE LET es == elements(d.body) IN
         IF \E i \in DOMAIN es :
              ~(/\ isMap(es[i])
                /\ isMap(field(es[i], "permissions"))
                /\ isMap(granteeUserId(es[i]))
                /\ isStr(field(granteeUserId(es[i]), "idp"))
                /\ isStr(field(granteeUserId(es[i]), "opaque_id"))
                /\ \A f \in PermissionFields : isBool(field(field(es[i], "permissions"), f)))
         THEN Panic("interface conversion")
         ELSE Ret(Slice([i \in DOMAIN es |->
                     GrantOf(field(granteeUserId(es[i]), "opaque_id").str,
                             field(es[i], "permissions"))]), NoErr)

Quota(a, b) == [k |-> "quota", a |-> a, b |-> b]

GetQuota_nextcloud(d) ==
    IF d.err # NoErr THEN Ret(Quota(0, 0), d.err)
    ELSE IF ~unmarshalsIntoMap(d.body) THEN Ret(Quota(0, 0), "json.Unmarshal")
    ELSE IF ~(isNum(field(d.body, "maxBytes")) /\ isNum(field(d.body, "maxFiles")))
         THEN Panic("interface conversion")
    ELSE Ret(Quota(field(d.body, "maxBytes").num, field(d.body, "maxFiles").num), NoErr)

\* do's error is overwritten by json.Unmarshal's, which fails on the nil body.
GetQuota_part000(d) ==
    IF ~unmarshalsIntoMap(d.body) THEN Ret(Quota(0, 0), "json.Unmarshal")
    ELSE IF ~(isNum(field(d.body, "total")) /\ isNum(field(d.body, "used")))
         THEN Panic("interface conversion")
    ELSE Ret(Quota(field(d.body, "total").num, field(d.body, "used").num), NoErr)

\* The fields ListStorageSpaces asserts to be strings and numbers.
spaceStrings ==
    { "opaqueId", "ownerIdp", "ownerOpaqueId", "rootStorageId", "rootOpaqueId", "name",
      "spaceType" }
spaceNumbers == { "quotaMaxBytes", "quotaMaxFiles", "mTimeSeconds" }

ListStorageSpaces_nextcloud(d) ==
    IF d.err # NoErr THEN Ret(Nil, d.err)
    ELSE IF ~unmarshalsIntoSlice(d.body) THEN Ret(Nil, "json.Unmarshal")
    ELSE LET es == elements(d.body) IN
         IF \E i \in DOMAIN es :
              ~(/\ isMap(es[i])
                /\ isMap(field(es[i], "opaque"))
                /\ \A f \in DOMAIN field(es[i], "opaque").obj :
                      isStr(field(es[i], "opaque").obj[f])
                /\ \A f \in spaceStrings : isStr(field(es[i], f))
                /\ \A f \in spaceNumbers : isNum(field(es[i], f)))
         THEN Panic("interface conversion")
         ELSE Ret(Slice([i \in DOMAIN es |->
                     [ k |-> "StorageSpace",
                       opaque |-> [f \in DOMAIN field(es[i], "opaque").obj |->
                                      field(es[i], "opaque").obj[f].str],
                       strings |-> [f \in spaceStrings |-> field(es[i], f).str],
                       numbers |-> [f \in spaceNumbers |-> field(es[i], f).num] ]]), NoErr)

\* The unnamed file's ListStorageSpaces returns no spaces.
ListStorageSpaces_part000(d) == Ret(Nil, d.err)

\* The result of a method routed through do, from what do returned.
ResultOf(impl, op, prm, d) ==
    LET nc == impl = "nextcloud.go" IN
    CASE op = "GetHome" -> GetHome(d)
      [] op = "GetPathByID" -> GetPathByID(d)
      [] op = "GetMD" -> IF nc THEN GetMD_nextcloud(prm, d) ELSE GetMD_part000(prm, d)
      [] op = "ListFolder" -> IF nc THEN ListFolder_nextcloud(d) ELSE ListFolder_part000(d)
      [] op = "InitiateUpload" -> InitiateUpload(d)
      [] op = "ListRevisions" ->
           IF nc THEN ListRevisions_nextcloud(d) ELSE ListRevisions_part000(d)
      [] op = "ListRecycle" ->
           IF nc THEN ListRecycle_nextcloud(d) ELSE ListRecycle_part000(prm, d)
      [] op = "ListGrants" -> IF nc THEN ListGrants_nextcloud(d) ELSE ListGrants_part000(d)
      [] op = "GetQuota" -> IF nc THEN GetQuota_nextcloud(d) ELSE GetQuota_part000(d)
      [] op = "ListStorageSpaces" ->
           IF nc THEN ListStorageSpaces_nextcloud(d) ELSE ListStorageSpaces_part000(d)
      [] OTHER -> errOnly(d)

\* CreateStorageSpace sends nothing.
CreateStorageSpace == Ret(Nil, "unimplemented: CreateStorageSpace")

\* ------------------------------------------------------------ the methods

\* A method up to its nc.client.Do(req): the requests sent, and the result when
\* the method ends before any exchange (Nil otherwise).
Begin(impl, nc, op, ctx, prm) ==
    CASE op \in DoOps ->
           LET q == doRequest(nc, ctx, ActionOf(impl, op, prm)) IN
           [sent |-> q.sent,
            res |-> IF q.early = Nil THEN Nil ELSE ResultOf(impl, op, prm, q.early)]
      [] op = "Upload" ->
           LET q == doUploadRequest(nc, ctx, prm.ref.path, prm.r) IN
           [sent |-> q.sent, res |-> q.early]
      [] op = "Download" ->
           LET q == doDownloadRequest(nc, ctx, prm.ref.path) IN
           [sent |-> q.sent, res |-> q.early]
      [] op = "DownloadRevision" ->
           LET q == doDownloadRevisionRequest(nc, ctx, prm.ref.path, prm.key) IN
           [sent |-> q.sent, res |-> q.early]
      [] op = "CreateStorageSpace" -> [sent |-> <<>>, res |-> CreateStorageSpace]

\* A method from the end of its HTTP exchange on: what it returns.
Finish(impl, op, prm, o) ==
    CASE op \in DoOps -> ResultOf(impl, op, prm, doResponse(o))
      [] op = "Upload" -> doUploadResponse(o)
      [] op \in {"Download", "DownloadRevision"} -> doDownloadResponse(o)

\* ------------------------------------------------------------------ state

\* StorageDriverConfig values a driver is constructed from.
EndPoint1 == <<"http", ":", "/", "/", "nc", "/", "apps", "/", "sciencemesh", "/">>
EndPoint2 == <<"http", ":", "/", "/", "cloud", "/">>
\* The map[string]interface{} values New is given: three that decode (the last
\* without mock_http and with a key the struct has no field for) and two that
\* do not (a number for end_point, a string for mock_http).
ConfigMaps ==
    { JObj([end_point |-> JStr(EndPoint1), mock_http |-> JBool(FALSE)]),
      JObj([end_point |-> JStr(EndPoint2), mock_http |-> JBool(TRUE)]),
      JObj([end_point |-> JStr(EndPoint2), other |-> JNum(1)]),
      JObj([end_point |-> JNum(7)]),
      JObj([end_point |-> JStr(EndPoint1), mock_http |-> JStr(<<"yes">>)]) }

\* parseConfig: mapstructure.Decode into a StorageDriverConfig. A key without
\* a field is ignored, a field without a key keeps its zero value, a value of
\* another type than its field is an error.
parseConfig(cm) ==
    IF /\ field(cm, "end_point").k \in {"str", "null"}
       /\ field(cm, "mock_http").k \in {"bool", "null"}
    THEN [conf |-> [EndPoint |-> strOf(field(cm, "end_point")),
                    MockHTTP |-> boolOf(field(cm, "mock_http"))],
          err |-> NoErr]
    ELSE [conf |-> Nil, err |-> "error decoding conf"]

Configs == { parseConfig(cm).conf : cm \in {x \in ConfigMaps : parseConfig(x).err = NoErr} }
\* The *http.Client values: the two NewStorageDriver makes, and two a caller sets.
SetClients == { "caller's client", "caller's other client" }
Clients == { "http.Client{}", "TestingHTTPClient" } \cup SetClients

\* The goroutines that call the driver.
Procs == { "p1", "p2" }

VARIABLES
    impl,       \* the file the driver's methods come from
    confMap,    \* the map New was given
    newRes,     \* what New returned: the driver or nil, and the error
    lastSet,    \* the argument of the last SetHTTPClient, "none" before the first
    conf,       \* the configuration the driver was constructed from
    endPoint,   \* StorageDriver.endPoint
    client,     \* StorageDriver.client
    clientSet,  \* whether SetHTTPClient has been called
    calls       \* per goroutine: the call it is in

vars == <<impl, confMap, newRes, lastSet, conf, endPoint, client, clientSet, calls>>

\* The receiver *StorageDriver.
nc == [endPoint |-> endPoint, client |-> client]

Idle == [pc |-> "idle", op |-> "", ctx |-> Nil, prm |-> Nil, sent |-> <<>>, out |-> Nil,
         res |-> Nil, prev |-> Nil]

\* A NewStorageDriver that took the endpoint from elsewhere than the configuration.
NewStorageDriverElsewhere(c) ==
    [endPoint |-> EndPoint1,
     client |-> IF c.MockHTTP THEN "TestingHTTPClient" ELSE "http.Client{}"]

\* NewStorageDriver.
NewStorageDriver(c) ==
    [endPoint |-> c.EndPoint,
     client |-> IF c.MockHTTP THEN "TestingHTTPClient" ELSE "http.Client{}"]

\* New: parseConfig, then NewStorageDriver.
New(cm) ==
    LET c == parseConfig(cm) IN
    IF c.err # NoErr THEN Ret(Nil, c.err) ELSE Ret(NewStorageDriver(c.conf), NoErr)

\* New has returned a driver.
HasDriver == newRes.err = NoErr

\* The state after New(confMap): the fields of the driver it returned; no
\* driver, and so no call, when it returned an error.
Init ==
    /\ impl \in Impls
    /\ confMap \in ConfigMaps
    /\ newRes = New(confMap)
    /\ conf = parseConfig(confMap).conf
    /\ lastSet = "none"
    /\ endPoint = IF New(confMap).err = NoErr THEN New(confMap).val.endPoint ELSE <<>>
    /\ client = IF New(confMap).err = NoErr THEN New(confMap).val.client ELSE "nil"
    /\ clientSet = FALSE
    /\ calls = [p \in Procs |-> Idle]

\* The receiver after a method other than SetHTTPClient: no method assigns to it.
\* A method that put a fresh client into the receiver.
receiverReset(n) == [n EXCEPT !.client = "http.Client{}"]
receiverAfter(n) == n

\* A driver that kept the previous result of a call and gave it again.
startedFromMemory(impl_, n, op, ctx, prm, prev) ==
    LET b == Begin(impl_, n, op, ctx, prm) IN
    IF prev # Nil
    THEN [pc |-> "done", op |-> op, ctx |-> ctx, prm |-> prm, sent |-> <<>>, out |-> Nil,
          res |-> prev.res, prev |-> prev]
    ELSE [pc |-> IF b.res = Nil THEN "waiting" ELSE "done", op |-> op, ctx |-> ctx,
          prm |-> prm, sent |-> b.sent, out |-> Nil, res |-> b.res, prev |-> prev]

\* The call a goroutine is in once the method has reached client.Do or returned.
started(impl_, n, op, ctx, prm, prev) ==
    LET b == Begin(impl_, n, op, ctx, prm) IN
    [pc |-> IF b.res = Nil THEN "waiting" ELSE "done", op |-> op, ctx |-> ctx, prm |-> prm,
     sent |-> b.sent, out |-> Nil, res |-> b.res, prev |-> prev]

\* A driver whose calls shared the response: every waiting call takes o.
deliveredToAll(cs, impl_, p, o) ==
    [q \in DOMAIN cs |->
        IF cs[q].pc = "waiting"
        THEN [cs[q] EXCEPT !.pc = "done", !.out = o,
                           !.res = Finish(impl_, cs[q].op, cs[q].prm, o)]
        ELSE cs[q]]

\* The calls once the exchange of p's call has ended in o: p's method returns.
delivered(cs, impl_, p, o) ==
    [cs EXCEPT ![p] = [cs[p] EXCEPT !.pc = "done", !.out = o,
                                    !.res = Finish(impl_, cs[p].op, cs[p].prm, o)]]

\* Goroutine p calls method op: the method runs up to its HTTP exchange, or to
\* its end when it sends nothing.
Call(p, op, ctx, prm) ==
    /\ HasDriver
    /\ calls[p].pc = "idle"
    /\ calls' = [calls EXCEPT ![p] = started(impl, nc, op, ctx, prm, Nil)]
    /\ endPoint' = receiverAfter(nc).endPoint
    /\ client' = receiverAfter(nc).client
    /\ UNCHANGED <<impl, confMap, newRes, lastSet, conf, clientSet>>

\* The HTTP exchange of p's call ends in o and the method runs to its end.
Respond(p, o) ==
    /\ calls[p].pc = "waiting"
    /\ calls' = delivered(calls, impl, p, o)
    /\ endPoint' = receiverAfter(nc).endPoint
    /\ client' = receiverAfter(nc).client
    /\ UNCHANGED <<impl, confMap, newRes, lastSet, conf, clientSet>>

\* The caller of p's call takes the result (or recovers the panic).
Return(p) ==
    /\ calls[p].pc = "done"
    /\ calls' = [calls EXCEPT ![p] = Idle]
    /\ UNCHANGED <<impl, confMap, newRes, lastSet, conf, endPoint, client, clientSet>>

\* The caller of p's call makes the same call again.
Repeat(p) ==
    /\ calls[p].pc = "done"
    /\ calls[p].prev = Nil
    /\ calls' = [calls EXCEPT ![p] =
                    started(impl, nc, calls[p].op, calls[p].ctx, calls[p].prm,
                            [out |-> calls[p].out, res |-> calls[p].res])]
    /\ endPoint' = receiverAfter(nc).endPoint
    /\ client' = receiverAfter(nc).client
    /\ UNCHANGED <<impl, confMap, newRes, lastSet, conf, clientSet>>

\* A SetHTTPClient that left the client as it was.
SetHTTPClientDropped(c) ==
    /\ HasDriver
    /\ clientSet' = TRUE
    /\ lastSet' = c
    /\ UNCHANGED <<impl, confMap, newRes, conf, endPoint, client, calls>>

\* SetHTTPClient.
SetHTTPClient(c) ==
    /\ HasDriver
    /\ client' = c
    /\ clientSet' = TRUE
    /\ lastSet' = c
    /\ UNCHANGED <<impl, confMap, newRes, conf, endPoint, calls>>

\* One caller, every method, every parameter and every outcome of the exchange.
Next ==
    \/ \E op \in Ops, ctx \in Contexts : \E prm \in Params(op) : Call("p1", op, ctx, prm)
    \/ \E o \in Outcomes : Respond("p1", o)
    \/ Return("p1")
    \/ \E c \in SetClients : SetHTTPClient(c)

Spec == Init /\ [][Next]_vars

\* The same call made twice in a row by one caller, with fewer outcomes.
FewOutcomes ==
    { TransportError, Response(StatusOK, GoodObject("1"), FALSE),
      Response(StatusOK, GoodObject("2"), FALSE), Response(StatusOK, RawText("/home/x"), FALSE),
      Response(StatusOK, JArr(<<JObj(TypedItem("1"))>>), FALSE),
      Response(StatusNotFound, EmptyBody, FALSE), Response(500, GoodObject("1"), FALSE) }

NextRepeat ==
    \/ \E op \in Ops, ctx \in Contexts : \E prm \in Params(op) : Call("p1", op, ctx, prm)
    \/ \E o \in FewOutcomes : Respond("p1", o)
    \/ Return("p1")
    \/ Repeat("p1")

SpecRepeat == Init /\ [][NextRepeat]_vars

\* Two goroutines in the driver at once, SetHTTPClient not called: a selection
\* of the methods, one per way of reaching the backend.
Ref1 == [rid |-> <<>>, path |-> P1]
ConcurrentCalls ==
    { [op |-> "GetHome", prm |-> [none |-> Nil]],
      [op |-> "GetMD", prm |-> [ref |-> Ref1, mdKeys |-> <<>>]],
      [op |-> "ListFolder", prm |-> [ref |-> Ref1, mdKeys |-> <<>>]],
      [op |-> "CreateDir", prm |-> [ref |-> Ref1]],
      [op |-> "GetQuota", prm |-> [none |-> Nil]],
      [op |-> "Upload", prm |-> [ref |-> Ref1, r |-> <<"data">>]],
      [op |-> "Download", prm |-> [ref |-> Ref1]],
      [op |-> "DownloadRevision", prm |-> [ref |-> Ref1, key |-> K2]],
      [op |-> "CreateStorageSpace", prm |-> [req |-> <<"space">>]] }

NextConcurrent ==
    \E p \in Procs :
        \/ \E c \in ConcurrentCalls, ctx \in Contexts : Call(p, c.op, ctx, c.prm)
        \/ \E o \in FewOutcomes : Respond(p, o)
        \/ Return(p)

SpecConcurrent == Init /\ [][NextConcurrent]_vars

\* ----------------------------------------------------------------- claims

\* A call that has ended and the answer its exchange gave, if it had one.
Ended(p) == calls[p].pc = "done"
Answered(p) == Ended(p) /\ calls[p].out # Nil
Returned(p) == calls[p].res.k = "return"
Panicked(p) == calls[p].res.k = "panic"
Forwarded(op) == op \in DoOps \cup StreamOps

\* C1: when the transport fails (client.Do returns an error) the operation
\* returns a non-nil error and does not panic, Upload, Download and
\* DownloadRevision included.
C1_TransportErrorIsReturned ==
    \A p \in Procs :
        (Answered(p) /\ calls[p].out = TransportError)
            => (Returned(p) /\ calls[p].res.err # NoErr)

\* The methods that parse the response body as JSON, and the zero result of each.
ParsingOps ==
    { "GetMD", "ListFolder", "InitiateUpload", "ListRevisions", "ListRecycle", "ListGrants",
      "GetQuota", "ListStorageSpaces" }
ListOps == { "ListFolder", "ListRevisions", "ListRecycle", "ListGrants", "ListStorageSpaces" }
ZeroResult(op) == IF op = "GetQuota" THEN Quota(0, 0) ELSE Nil

\* Bodies that cannot be decoded into the shape a method expects: no JSON at
\* all, an array where an object is expected or the reverse, an element or a
\* field of the wrong type, and for GetQuota an object without its fields.
Undecodable(op) ==
    TextDocs
      \cup (IF op \in ListOps THEN ObjectDocs \cup {JArr(<<JNum(7)>>)}
            ELSE (ArrayDocs \ {JArr(<<>>)}) \cup {BadObject})
      \cup (IF op = "GetQuota" THEN {EmptyObject} ELSE {})

\* C2: a response body that cannot be decoded into the expected shape makes a
\* JSON-parsing operation return a non-nil error with a zero result; it never
\* panics.
C2_UndecodableBodyIsAnError ==
    \A p \in Procs :
        (/\ Answered(p)
         /\ calls[p].op \in ParsingOps
         /\ calls[p].out.k = "response"
         /\ ~calls[p].out.readErr
         /\ calls[p].out.body \in Undecodable(calls[p].op))
            => (/\ Returned(p)
                /\ calls[p].res.err # NoErr
                /\ calls[p].res.val = ZeroResult(calls[p].op))

\* Whether http.NewRequest accepts the URL the method builds for the call.
UrlAccepted(p) ==
    /\ urlParses(endPoint)
    /\ urlParses(calls[p].ctx.user.Username)
    /\ calls[p].op \in StreamOps => urlParses(calls[p].prm.ref.path)

\* C3 as stated: every call sends at most one request, and exactly one when the
\* context carries a user and the operation is forwarded.
C3_ExactlyOneRequestWithUser ==
    \A p \in Procs :
        calls[p].pc # "idle" =>
            /\ Len(calls[p].sent) <= 1
            /\ (calls[p].ctx.user # Nil /\ Forwarded(calls[p].op)) => Len(calls[p].sent) = 1

\* C3: every call sends at most one request; exactly one when the context
\* carries a user, the operation is forwarded and http.NewRequest accepts the
\* URL; none otherwise. A failed exchange ends the call with that one request.
C3_AtMostOneRequest ==
    \A p \in Procs :
        calls[p].pc # "idle" =>
            /\ Len(calls[p].sent) <= 1
            /\ (calls[p].ctx.user # Nil /\ Forwarded(calls[p].op) /\ UrlAccepted(p))
                  => Len(calls[p].sent) = 1
            /\ (calls[p].ctx.user = Nil \/ ~Forwarded(calls[p].op)) => Len(calls[p].sent) = 0
            /\ (calls[p].ctx.user # Nil /\ Forwarded(calls[p].op) /\ ~UrlAccepted(p))
                  => (Len(calls[p].sent) = 0 /\ Ended(p))
            /\ Answered(p) => Len(calls[p].sent) = 1

\* A call whose one exchange failed has ended.
C3_FailedExchangeEnded ==
    \E p \in Procs :
        /\ Answered(p)
        /\ calls[p].out = TransportError \/ calls[p].out.status = 500
        /\ Len(calls[p].sent) = 1

\* A call that has handed its request to the client.
Sent(p) == calls[p].pc # "idle" /\ Len(calls[p].sent) = 1
TheRequest(p) == calls[p].sent[1].req

\* C4: every parameter besides the context is serialized into the request:
\* the same operation called by the same user with different parameter values
\* sends a different body or a different URL.
C4_ParametersDistinguishRequests ==
    \A p \in Procs :
        Sent(p) =>
            \A other \in Params(calls[p].op) \ {calls[p].prm} :
                Begin(impl, nc, calls[p].op, calls[p].ctx, other).sent # calls[p].sent

\* The items well formed for the list methods of the file the driver comes from.
WellFormedItems ==
    IF impl = "nextcloud.go" THEN {JObj(TypedItem("1")), JObj(TypedItem("2"))}
    ELSE {JObj(MapItem("1")), JObj(MapItem("2"))}

\* Whether the returned entry is the one built from the item.
EntryOf(op, entry, item) ==
    CASE op = "ListFolder" -> entry.etag = item.obj.etag.str
      [] op = "ListRevisions" -> entry.key = item.obj.key.str
      [] op = "ListRecycle" -> entry.key = item.obj.key.str
      [] op = "ListGrants" -> entry.permissions["move"] = item.obj.permissions.obj["move"].bool
      [] op = "ListStorageSpaces" -> entry.strings["opaqueId"] = item.obj.opaqueId.str

\* C5: a list operation whose response body is a JSON array of n well-formed
\* items returns a slice of n entries, entry i built from item i, and no error.
C5_ListReturnsOneEntryPerItem ==
    \A p \in Procs :
        (/\ Answered(p)
         /\ calls[p].op \in ListOps
         /\ calls[p].out.k = "response"
         /\ ~calls[p].out.readErr
         /\ calls[p].out.status # StatusNotFound
         /\ calls[p].out.body.k = "arr"
         /\ \A i \in DOMAIN calls[p].out.body.arr : calls[p].out.body.arr[i] \in WellFormedItems)
            => (/\ Returned(p)
                /\ calls[p].res.err = NoErr
                /\ calls[p].res.val.k = "slice"
                /\ Len(calls[p].res.val.items) = Len(calls[p].out.body.arr)
                /\ \A i \in DOMAIN calls[p].out.body.arr :
                      EntryOf(calls[p].op, calls[p].res.val.items[i], calls[p].out.body.arr[i]))

\* json.Marshal of one parameter of an operation.
Serialized(op, name, v) ==
    CASE name \in {"ref", "oldRef", "newRef", "restoreRef"} -> marshalReference(v)
      [] name \in {"key", "path", "targetURI"} -> jsonString(v)
      [] name \in {"mdKeys", "keys"} -> jsonStringSlice(v)
      [] name = "metadata" -> jsonStringMap(v)
      [] name = "md" -> marshalArbitraryMetadata(v)
      [] name = "uploadLength" -> <<ToString(v)>>
      [] name = "g" -> IF op = "DenyGrant" THEN marshalGrantee(v) ELSE marshalGrant(v)
      [] name = "f" -> marshalFilters(v)
      [] name = "id" -> marshalResourceId(v)
      [] name = "none" -> <<>>

\* Whether the text a occurs in the text b.
IsInfix(a, b) == \E i \in 0..(Len(b) - Len(a)) : SubSeq(b, i + 1, i + Len(a)) = a

\* The URL of the user's endpoint for a verb.
UserURL(p, verb) ==
    endPoint \o <<"~">> \o calls[p].ctx.user.Username \o <<verb>>

\* The method, content type and URL of C6, for every request sent.
RequestLine(p) ==
    LET q == TheRequest(p)
        op == calls[p].op IN
    CASE op \in DoOps ->
           /\ q.method = "POST"
           /\ q.contentType = "application/json"
           /\ q.url = UserURL(p, "/api/") \o <<op>>
      [] op = "Upload" ->
           /\ q.method = "PUT"
           /\ q.url = UserURL(p, "/api/Upload/") \o calls[p].prm.ref.path
           /\ q.body = calls[p].prm.r
      [] op = "Download" ->
           /\ q.method = "GET"
           /\ q.url = UserURL(p, "/api/Download/") \o calls[p].prm.ref.path
      [] op = "DownloadRevision" ->
           /\ q.method = "GET"
           /\ q.url = UserURL(p, "/api/DownloadRevision/")
                        \o QueryEscape(calls[p].prm.key) \o <<"/">> \o calls[p].prm.ref.path

\* C6: an operation routed through do sends a POST with Content-Type
\* application/json to <endPoint>~<Username>/api/<verb> with the serialized
\* parameters as body; Upload sends a PUT of the stream to .../api/Upload/<path>,
\* Download a GET to .../api/Download/<path>, DownloadRevision a GET to
\* .../api/DownloadRevision/<escaped key>/<path>.
C6_RequestPattern ==
    \A p \in Procs :
        Sent(p) =>
            /\ RequestLine(p)
            /\ calls[p].op \in DoOps =>
                 \A name \in DOMAIN calls[p].prm :
                    IsInfix(Serialized(calls[p].op, name, calls[p].prm[name]), TheRequest(p).body)

\* The method-and-URL part of C6 alone.
RequestLinePattern == \A p \in Procs : Sent(p) => RequestLine(p)

\* The verb a request's URL names.
EndpointVerb(url) ==
    LET i == Len(url) IN
    LET at == CHOOSE j \in 1..i :
                 url[j] \in {"/api/", "/api/Upload/", "/api/Download/", "/api/DownloadRevision/"}
    IN CASE url[at] = "/api/" -> url[at + 1]
         [] url[at] = "/api/Upload/" -> "Upload"
         [] url[at] = "/api/Download/" -> "Download"
         [] url[at] = "/api/DownloadRevision/" -> "DownloadRevision"

\* The verbs the other operations send to, for the same user.
VerbsOfOthers(p) ==
    { EndpointVerb(b.sent[1].req.url) :
        b \in { c \in { Begin(impl, nc, op, calls[p].ctx, CHOOSE prm \in Params(op) : TRUE) :
                          op \in Ops \ {calls[p].op} } : Len(c.sent) = 1 } }

\* C7: the endpoint verb is the operation's Go method name, and no two
\* distinct operations send to the same verb.
C7_VerbIsMethodName ==
    \A p \in Procs :
        (Sent(p) /\ calls[p].pc = "waiting") =>
            /\ EndpointVerb(TheRequest(p).url) = calls[p].op
            /\ EndpointVerb(TheRequest(p).url) \notin VerbsOfOthers(p)

\* RemoveGrant has sent its request.
C7_RemoveGrantSent ==
    \E p \in Procs : Sent(p) /\ calls[p].pc = "waiting" /\ calls[p].op = "RemoveGrant"

\* C8: the driver keeps no state between calls: no operation but SetHTTPClient
\* changes endPoint or client, SetHTTPClient changes the client only, and until
\* it is called both are as NewStorageDriver set them.
C8_OnlySetHTTPClientChangesReceiver ==
    /\ []((HasDriver /\ ~clientSet) => nc = NewStorageDriver(conf))
    /\ [](HasDriver => endPoint = conf.EndPoint)
    /\ [][calls' # calls => (endPoint' = endPoint /\ client' = client)]_vars
    /\ [][client' # client => (clientSet' /\ calls' = calls)]_vars

\* A call answered through the client SetHTTPClient installed.
C8_CallThroughInstalledClient ==
    \E p \in Procs :
        Answered(p) /\ clientSet /\ calls[p].sent[1].client = "caller's client"

\* The methods that return do's error alone.
ErrOnlyOps ==
    DoOps \ (ParsingOps \cup {"GetHome", "GetPathByID"})

\* What the answer of a call's own exchange determines of its result, spelled
\* out for each kind of method.
ReflectsOwnAnswer(p) ==
    LET c == calls[p]
        o == calls[p].out IN
    /\ o = TransportError => (Panicked(p) \/ c.res.err # NoErr)
    /\ (o.k = "response" /\ ~o.readErr) =>
          /\ c.op \in {"GetHome", "GetPathByID"} => c.res = Ret(o.body, NoErr)
          /\ c.op \in ErrOnlyOps => c.res = Ret(Nil, NoErr)
          /\ c.op = "Upload" => c.res = Ret(Nil, NoErr)
          /\ (c.op \in {"GetMD", "ListFolder"} /\ o.status = StatusNotFound)
                => c.res = Ret(Nil, "NotFound")
          /\ (c.op = "GetMD" /\ o.status # StatusNotFound
                /\ o.body \in {GoodObject("1"), GoodObject("2")})
                => (Returned(p) /\ c.res.err = NoErr /\ c.res.val.etag = o.body.obj.etag.str)
          /\ (c.op = "GetQuota" /\ o.body \in {GoodObject("1"), GoodObject("2")})
                => (/\ Returned(p) /\ c.res.err = NoErr
                    /\ c.res.val.a = IF impl = "nextcloud.go" THEN o.body.obj.maxBytes.num
                                     ELSE o.body.obj.total.num)
          /\ (c.op \in {"Download", "DownloadRevision"} /\ o.status = StatusOK)
                => (Returned(p) /\ c.res.err = NoErr /\ c.res.val.body = o.body)
          /\ (c.op \in {"Download", "DownloadRevision"} /\ o.status # StatusOK) => Panicked(p)

\* C9: results are not cached: the same call made a second time sends a new
\* request through the client, and its result is the one the second answer
\* determines, whatever the first call returned.
C9_SecondCallAsksAgain ==
    \A p \in Procs :
        calls[p].prev # Nil =>
            /\ (calls[p].ctx.user # Nil /\ Forwarded(calls[p].op) /\ UrlAccepted(p))
                  => (Len(calls[p].sent) = 1 /\ calls[p].sent[1].client = client)
            /\ Ended(p) /\ Len(calls[p].sent) = 1 => calls[p].out # Nil
            /\ Answered(p) => ReflectsOwnAnswer(p)

\* GetMD answered 200 the first time and 404 the second: NotFound.
C9_FoundThenNotFound ==
    \E p \in Procs :
        /\ calls[p].prev # Nil /\ Answered(p) /\ calls[p].op = "GetMD"
        /\ calls[p].prev.out # Nil /\ calls[p].prev.out.k = "response"
        /\ calls[p].prev.out.status = StatusOK /\ calls[p].prev.res.err = NoErr
        /\ calls[p].out.k = "response" /\ calls[p].out.status = StatusNotFound
        /\ calls[p].res = Ret(Nil, "NotFound")

\* C10: calls made at the same time do not interfere: a step of one call leaves
\* every other call as it was, each request is the one of its own user,
\* operation and parameters, a call ends only when its own exchange has, and
\* its result is the one its own answer determines.
C10_ConcurrentCallsIndependent ==
    /\ [][\A p \in Procs :
            calls'[p] # calls[p] => \A q \in Procs \ {p} : calls'[q] = calls[q]]_vars
    /\ [](\A p \in Procs : Sent(p) => RequestLine(p))
    /\ [](\A p \in Procs : (Ended(p) /\ Sent(p)) => calls[p].out # Nil)
    /\ [](\A p \in Procs : Answered(p) => ReflectsOwnAnswer(p))

\* One call answered while another, of another user, still waits.
C10_OneAnsweredOtherWaiting ==
    \E p, q \in Procs :
        /\ p # q /\ Answered(p) /\ calls[q].pc = "waiting"
        /\ calls[p].ctx # calls[q].ctx

\* C11: CreateStorageSpace, called with a well-formed request and a context
\* that carries a user, sends an HTTP request to the backend and returns a
\* non-nil response with a nil error.
C11_CreateStorageSpaceCreates ==
    \A p \in Procs :
        (Ended(p) /\ calls[p].op = "CreateStorageSpace" /\ calls[p].ctx.user # Nil)
            => (/\ Len(calls[p].sent) = 1
                /\ Returned(p)
                /\ calls[p].res.val # Nil
                /\ calls[p].res.err = NoErr)

\* A configuration map that decodes: each key that names a field of
\* StorageDriverConfig holds a value of the field's type.
WellTyped(cm) ==
    /\ "end_point" \in DOMAIN cm.obj => cm.obj["end_point"].k = "str"
    /\ "mock_http" \in DOMAIN cm.obj => cm.obj["mock_http"].k = "bool"

\* Whether the text a is the beginning of the text b.
IsPrefix(a, b) == Len(a) <= Len(b) /\ SubSeq(b, 1, Len(a)) = a

\* C12: for a configuration map that decodes New returns a nil error and a
\* driver whose endPoint is the map's end_point value, and every request of
\* that driver goes to a URL that starts with it; for a map that does not
\* decode New returns a nil driver and a non-nil error.
C12_NewTalksToConfiguredEndPoint ==
    /\ WellTyped(confMap) =>
          /\ newRes.err = NoErr
          /\ newRes.val # Nil
          /\ newRes.val.endPoint = confMap.obj["end_point"].str
          /\ endPoint = confMap.obj["end_point"].str
          /\ \A p \in Procs :
                Sent(p) => IsPrefix(confMap.obj["end_point"].str, TheRequest(p).url)
    /\ ~WellTyped(confMap) =>
          /\ newRes.val = Nil
          /\ newRes.err # NoErr
          /\ \A p \in Procs : calls[p].pc = "idle"

\* A request of a driver made from a map with a key the configuration lacks.
C12_RequestOfConfiguredDriver ==
    \E p \in Procs :
        /\ Sent(p)
        /\ "other" \in DOMAIN confMap.obj
        /\ IsPrefix(EndPoint2, TheRequest(p).url)

\* C13: after SetHTTPClient(c) the driver's client is c, every request of a
\* call that starts from then on is handed to c alone, and endPoint is as it
\* was.
C13_SetHTTPClientSetsClient ==
    /\ [](lastSet # "none" => client = lastSet)
    /\ [][\A p \in Procs :
            (calls[p].pc = "idle" /\ calls'[p].pc # "idle")
                => \A i \in DOMAIN calls'[p].sent : calls'[p].sent[i].client = client]_vars
    /\ [][lastSet' # lastSet => (endPoint' = endPoint /\ calls' = calls)]_vars

\* A request handed to the other client a caller installed.
C13_RequestThroughNewClient ==
    \E p \in Procs :
        /\ Sent(p)
        /\ lastSet = "caller's other client"
        /\ calls[p].sent[1].client = "caller's other client"

\* The two quota fields of a response object, first and second, as the file
\* the driver comes from names them.
QuotaFields == IF impl = "nextcloud.go" THEN <<"maxBytes", "maxFiles">> ELSE <<"total", "used">>

\* C14: GetQuota answered with an object whose two quota fields hold the
\* non-negative integers n and m returns (n, m, nil), the first from the first
\* field and the second from the second; when the request failed it returns
\* (0, 0, err) with err the error of the request.
C14_GetQuotaReturnsTheFields ==
    \A p \in Procs :
        (Ended(p) /\ calls[p].op = "GetQuota") =>
            /\ (/\ calls[p].out # Nil /\ calls[p].out.k = "response" /\ ~calls[p].out.readErr
                /\ calls[p].out.body \in {GoodObject("1"), GoodObject("2")})
                  => calls[p].res =
                        Ret(Quota(calls[p].out.body.obj[QuotaFields[1]].num,
                                  calls[p].out.body.obj[QuotaFields[2]].num), NoErr)
            /\ calls[p].out = TransportError => calls[p].res = Ret(Quota(0, 0), "client.Do")
            /\ (calls[p].out # Nil /\ calls[p].out.k = "response" /\ calls[p].out.readErr)
                  => calls[p].res = Ret(Quota(0, 0), "io.ReadAll")
            /\ calls[p].ctx.user = Nil => calls[p].res = Ret(Quota(0, 0), "UserRequired")

\* The zero value of what an operation returns beside its error.
ZeroValue(op) == IF op \in {"GetHome", "GetPathByID"} THEN EmptyBody ELSE ZeroResult(op)

\* C15: without a user in the context every forwarded operation returns a
\* UserRequired error with a zero result and sends no request.
C15_NoUserNoRequest ==
    \A p \in Procs :
        (calls[p].pc # "idle" /\ calls[p].ctx.user = Nil /\ Forwarded(calls[p].op))
            => (/\ Ended(p)
                /\ calls[p].sent = <<>>
                /\ calls[p].res = Ret(ZeroValue(calls[p].op), "UserRequired"))

StatusBlindOps ==
    { "CreateHome", "CreateDir", "Delete", "Move", "RestoreRevision", "RestoreRecycleItem",
      "PurgeRecycleItem", "EmptyRecycle", "AddGrant", "RemoveGrant", "DenyGrant",
      "UpdateGrant", "CreateReference", "SetArbitraryMetadata", "UnsetArbitraryMetadata",
      "Shutdown", "Upload" }

\* C17: once the exchange has completed and the body was read, the operations
\* that return an error alone return nil for every status code, and GetHome
\* and GetPathByID return the body as it came with a nil error.
C17_StatusIgnored ==
    \A p \in Procs :
        (Answered(p) /\ calls[p].out.k = "response" /\ ~calls[p].out.readErr) =>
            /\ calls[p].op \in StatusBlindOps => calls[p].res = Ret(Nil, NoErr)
            /\ calls[p].op \in {"GetHome", "GetPathByID"}
                  => calls[p].res = Ret(calls[p].out.body, NoErr)

\* Delete answered 500 or GetHome answered 404, without an error.
C17_ErrorStatusAnswered ==
    \E p \in Procs :
        /\ Answered(p) /\ calls[p].out.k = "response"
        /\ \/ calls[p].op = "Delete" /\ calls[p].out.status = 500
           \/ calls[p].op = "GetHome" /\ calls[p].out.status = StatusNotFound
        /\ calls[p].res.err = NoErr

\* C18: Download and DownloadRevision return a reader with a nil error only
\* for a status of 200, and the reader is that response's body; for every
\* other status they panic.
C18_ReaderOnlyFor200 ==
    \A p \in Procs :
        (Ended(p) /\ calls[p].op \in {"Download", "DownloadRevision"}) =>
            /\ (Returned(p) /\ calls[p].res.err = NoErr) =>
                  /\ calls[p].out # Nil
                  /\ calls[p].out.k = "response"
                  /\ calls[p].out.status = StatusOK
                  /\ calls[p].res.val # Nil
                  /\ calls[p].res.val.body = calls[p].out.body
            /\ (calls[p].out # Nil /\ calls[p].out.k = "response"
                  /\ calls[p].out.status # StatusOK) => Panicked(p)

\* DownloadRevision answered 201: a panic.
C18_OtherSuccessStatus ==
    \E p \in Procs :
        /\ Answered(p) /\ calls[p].op = "DownloadRevision"
        /\ calls[p].out.k = "response" /\ calls[p].out.status = 201
        /\ Panicked(p)

\* The part of a request's URL after the endpoint, up to the verb.
NamespaceOf(p) ==
    SubSeq(TheRequest(p).url, Len(endPoint) + 1,
           Len(endPoint) + 1 + Len(calls[p].ctx.user.Username))

\* C19: the URL of every request is endPoint, "~", the Username of the user in
\* the call's context and "/api/", in this order, whoever made the calls before
\* and whatever path or key the caller gave: a path that names another user
\* comes after the verb and leaves the beginning as it is.
C19_RequestInOwnNamespace ==
    \A p \in Procs :
        Sent(p) =>
            /\ IsPrefix(endPoint, TheRequest(p).url)
            /\ NamespaceOf(p) = <<"~">> \o calls[p].ctx.user.Username
            /\ TheRequest(p).url[Len(endPoint) + 2 + Len(calls[p].ctx.user.Username)]
                  \in {"/api/", "/api/Upload/", "/api/Download/", "/api/DownloadRevision/"}
            /\ \A u \in Users \ {calls[p].ctx.user} :
                  ~IsPrefix(endPoint \o <<"~">> \o u.Username, TheRequest(p).url)

\* A Download of alice with a path that names bob's namespace.
C19_PathNamesAnotherUser ==
    \E p \in Procs :
        /\ Sent(p) /\ calls[p].op = "Download"
        /\ calls[p].ctx.user = User(<<"alice">>)
        /\ calls[p].prm.ref.path = P3

\* C20: an operation that returns a value beside its error returns the zero
\* value whenever the error is not nil, and a list operation that returns a
\* nil error returns a slice that is not nil.
C20_ResultOrError ==
    \A p \in Procs :
        (Ended(p) /\ Returned(p)) =>
            /\ calls[p].res.err # NoErr => calls[p].res.val = ZeroValue(calls[p].op)
            /\ (calls[p].op \in ListOps /\ calls[p].res.err = NoErr)
                  => (calls[p].res.val # Nil /\ calls[p].res.val.k = "slice")

====
